---- MODULE Spec2Model ----
(***************************************************************************)
(* Model of cosmwasm-schema's QueryResponses integrity check               *)
(* (packages/schema/src/query_response.rs) and of the cw_serde attribute   *)
(* rewrite (packages/schema-derive/src/cw_serde.rs).                       *)
(*                                                                         *)
(* Option<T> is modelled as a sequence of length 0 (None) or 1 (Some(x)).  *)
(***************************************************************************)
EXTENDS Integers, Sequences, FiniteSets, TLC

VARIABLES pc, msg, schema, impl, result, input, output

vars == <<pc, msg, schema, impl, result, input, output>>

(***************************************************************************)
(* Bounds of the model.                                                    *)
(***************************************************************************)
MaxAlts == 2
MaxEnumLen == 2
MaxVariants == 2
MaxArity == 2
MaxAttrs == 2

None == <<>>
Some(x) == <<x>>

\* Operation names, listed in the order in which a BTreeSet<String> iterates.
NameSeq == <<"balance-for", "balance_for">>
Names == {NameSeq[i] : i \in 1..Len(NameSeq)}
Rank(n) == CHOOSE i \in 1..Len(NameSeq) : NameSeq[i] = n

\* Response schemas bound to the keys of the implementer's mapping.
RootSchemas == {"u128", "String"}

SeqsUpTo(S, n) == UNION {[1..k -> S] : k \in 0..n}

(***************************************************************************)
(* schemars data: serde_json::Value, SchemaObject, RootSchema.             *)
(***************************************************************************)
\* Literals of an enumerated value set: a string literal and one that is not.
Values == {[t |-> "String", s |-> NameSeq[1]], [t |-> "Number", s |-> "0"]}

\* serde_json::Value::as_str
as_str(v) == IF v.t = "String" THEN Some(v.s) ELSE None

ObjectValidations == {[required |-> r] : r \in SUBSET Names}

InstanceTypes ==
    {None,
     Some([kind |-> "Single", ty |-> "Object"]),
     Some([kind |-> "Single", ty |-> "String"]),
     Some([kind |-> "Single", ty |-> "Integer"]),
     Some([kind |-> "Vec", ty |-> "Object"])}

\* The one-of alternatives after Schema::into_object().
SchemaObjects ==
    {[instance_type |-> Some([kind |-> "Single", ty |-> "Object"]),
      object |-> o, enum_values |-> None] :
        o \in {None} \cup {Some(ov) : ov \in ObjectValidations}}
    \cup
    {[instance_type |-> Some([kind |-> "Single", ty |-> "String"]),
      object |-> None, enum_values |-> e] :
        e \in {None} \cup {Some(vs) : vs \in SeqsUpTo(Values, MaxEnumLen)}}
    \cup
    {[instance_type |-> t, object |-> o, enum_values |-> None] :
        t \in InstanceTypes \ {Some([kind |-> "Single", ty |-> "Object"]),
                               Some([kind |-> "Single", ty |-> "String"])},
        o \in {None, Some([required |-> {NameSeq[1]}])}}

SubschemaValidations ==
    {[one_of |-> None]} \cup
    {[one_of |-> Some(alts)] : alts \in SeqsUpTo(SchemaObjects, MaxAlts)}

Schemas ==
    {[subschemas |-> None]} \cup
    {[subschemas |-> Some(sv)] : sv \in SubschemaValidations}

\* BTreeMap<String, RootSchema>
ResponseMaps == UNION {[ks -> RootSchemas] : ks \in SUBSET Names}

(***************************************************************************)
(* Results.                                                                *)
(***************************************************************************)
Ok(v) == [tag |-> "Ok", value |-> v]
InvalidQueryMsgSchema == [tag |-> "InvalidQueryMsgSchema"]
InconsistentQueries(q, r) ==
    [tag |-> "InconsistentQueries", query_msg |-> q, responses |-> r]
IsOk(r) == r.tag = "Ok"

\* First element a BTreeSet<String> iterator yields.
First(S) == CHOOSE n \in S : \A m \in S : Rank(n) <= Rank(m)

\* variant_name without the values.len() != 1 test: the first value is taken.
variant_name_first_value(s) ==
    IF s.instance_type /= None /\ s.instance_type[1].kind = "Single"
    THEN LET ty == s.instance_type[1].ty IN
         CASE ty = "Object" ->
                IF s.object = None THEN InvalidQueryMsgSchema
                ELSE IF s.object[1].required = {} THEN InvalidQueryMsgSchema
                ELSE Ok(First(s.object[1].required))
           [] ty = "String" ->
                IF s.enum_values = None THEN InvalidQueryMsgSchema
                ELSE LET values == s.enum_values[1] IN
                     IF Len(values) = 0 THEN InvalidQueryMsgSchema
                     ELSE IF as_str(values[1]) = None THEN InvalidQueryMsgSchema
                     ELSE Ok(as_str(values[1])[1])
           [] OTHER -> InvalidQueryMsgSchema
    ELSE InvalidQueryMsgSchema

\* variant_name matching Some(ty) instead of Some(SingleOrVec::Single(ty)).
variant_name_any_kind(s) ==
    IF s.instance_type /= None
    THEN LET ty == s.instance_type[1].ty IN
         CASE ty = "Object" ->
                IF s.object = None THEN InvalidQueryMsgSchema
                ELSE IF s.object[1].required = {} THEN InvalidQueryMsgSchema
                ELSE Ok(First(s.object[1].required))
           [] ty = "String" ->
                IF s.enum_values = None THEN InvalidQueryMsgSchema
                ELSE LET values == s.enum_values[1] IN
                     IF Len(values) /= 1 THEN InvalidQueryMsgSchema
                     ELSE IF as_str(values[1]) = None THEN InvalidQueryMsgSchema
                     ELSE Ok(as_str(values[1])[1])
           [] OTHER -> InvalidQueryMsgSchema
    ELSE InvalidQueryMsgSchema

\* The closure mapped over the one-of list: one alternative to its name.
variant_name(s) ==
    IF s.instance_type /= None /\ s.instance_type[1].kind = "Single"
    THEN LET ty == s.instance_type[1].ty IN
         CASE ty = "Object" ->
                IF s.object = None THEN InvalidQueryMsgSchema
                ELSE IF s.object[1].required = {} THEN InvalidQueryMsgSchema
                ELSE Ok(First(s.object[1].required))
           [] ty = "String" ->
                IF s.enum_values = None THEN InvalidQueryMsgSchema
                ELSE LET values == s.enum_values[1] IN
                     IF Len(values) /= 1 THEN InvalidQueryMsgSchema
                     ELSE IF as_str(values[1]) = None THEN InvalidQueryMsgSchema
                     ELSE Ok(as_str(values[1])[1])
           [] OTHER -> InvalidQueryMsgSchema
    ELSE InvalidQueryMsgSchema

\* collect::<Result<BTreeSet<_>, _>>() over the mapped alternatives.
collect(alts) ==
    IF \E i \in 1..Len(alts) : ~IsOk(variant_name(alts[i]))
    THEN InvalidQueryMsgSchema
    ELSE Ok({variant_name(alts[i]).value : i \in 1..Len(alts)})

\* schema_queries demanding a subschema section: its absence is an error too.
schema_queries_strict(sch) ==
    IF sch.subschemas = None THEN InvalidQueryMsgSchema
    ELSE IF sch.subschemas[1].one_of = None THEN InvalidQueryMsgSchema
    ELSE collect(sch.subschemas[1].one_of[1])

schema_queries(sch) ==
    IF sch.subschemas = None THEN Ok({})
    ELSE IF sch.subschemas[1].one_of = None THEN InvalidQueryMsgSchema
    ELSE collect(sch.subschemas[1].one_of[1])

\* check_api_integrity comparing the sizes of the two sets only.
check_api_integrity_by_len(sch, generated_queries) ==
    LET sq == schema_queries(sch) IN
    IF ~IsOk(sq) THEN sq
    ELSE IF Cardinality(sq.value) /= Cardinality(generated_queries)
         THEN InconsistentQueries(sq.value, generated_queries)
         ELSE Ok(<<>>)

\* check_api_integrity filling the two fields of the error the wrong way round.
check_api_integrity_swapped(sch, generated_queries) ==
    LET sq == schema_queries(sch) IN
    IF ~IsOk(sq) THEN sq
    ELSE IF sq.value /= generated_queries
         THEN InconsistentQueries(generated_queries, sq.value)
         ELSE Ok(<<>>)

check_api_integrity(sch, generated_queries) ==
    LET sq == schema_queries(sch) IN
    IF ~IsOk(sq) THEN sq
    ELSE IF sq.value /= generated_queries
         THEN InconsistentQueries(sq.value, generated_queries)
         ELSE Ok(<<>>)

\* response_schemas rebuilding the mapping from its keys with one response schema.
response_schemas_rebuilt(sch, response_schemas_impl) ==
    LET queries == DOMAIN response_schemas_impl
        checked == check_api_integrity(sch, queries)
    IN IF ~IsOk(checked) THEN checked ELSE Ok([k \in queries |-> "u128"])

response_schemas(sch, response_schemas_impl) ==
    LET queries == DOMAIN response_schemas_impl
        checked == check_api_integrity(sch, queries)
    IN IF ~IsOk(checked) THEN checked ELSE Ok(response_schemas_impl)

(***************************************************************************)
(* The JsonSchema a derive produces for a QueryMsg enum (externally        *)
(* tagged): unit-like variants are gathered in one string schema listing   *)
(* their names; every other variant is an object whose single required     *)
(* property is the variant's name, the fields or tuple items living in     *)
(* that property's own schema.  Without non-unit variants the root is the  *)
(* string schema itself and carries no subschemas.                         *)
(***************************************************************************)
Variants ==
    {[name |-> n, style |-> "unit", fields |-> 0] : n \in Names}
    \cup {[name |-> n, style |-> st, fields |-> k] :
            n \in Names, st \in {"tuple", "struct"}, k \in 0..MaxArity}

\* Enum definitions: variants carry pairwise distinct names.
QueryMsgs ==
    {vs \in SeqsUpTo(Variants, MaxVariants) :
        \A i, j \in 1..Len(vs) : i /= j => vs[i].name /= vs[j].name}

IsUnit(v) == v.style = "unit"
IsComplex(v) == v.style /= "unit"

RECURSIVE MapSeq(_, _)
MapSeq(Op(_), sq) ==
    IF sq = <<>> THEN <<>> ELSE <<Op(Head(sq))>> \o MapSeq(Op, Tail(sq))

unit_value(v) == [t |-> "String", s |-> v.name]

complex_schema(v) ==
    [instance_type |-> Some([kind |-> "Single", ty |-> "Object"]),
     object |-> Some([required |-> {v.name}]),
     enum_values |-> None]

schema_for(variants) ==
    LET unit_variants == SelectSeq(variants, IsUnit)
        complex_variants == SelectSeq(variants, IsComplex)
        unit_schema ==
            [instance_type |-> Some([kind |-> "Single", ty |-> "String"]),
             object |-> None,
             enum_values |-> Some(MapSeq(unit_value, unit_variants))]
    IN IF complex_variants = <<>> THEN [subschemas |-> None]
       ELSE [subschemas |-> Some([one_of |-> Some(
                (IF unit_variants = <<>> THEN <<>> ELSE <<unit_schema>>)
                \o MapSeq(complex_schema, complex_variants))])]

(***************************************************************************)
(* cw_serde_impl: syn::DeriveInput, quote!'s token stream, parse_quote!.   *)
(***************************************************************************)
Attr(path, args) == [path |-> path, args |-> args]

derive_attr ==
    Attr("derive", <<"serde::Serialize", "serde::Deserialize", "Clone",
                     "Debug", "PartialEq", "schemars::JsonSchema">>)
allow_attr == Attr("allow", <<"clippy::derive_partial_eq_without_eq">>)
serde_struct_attr == Attr("serde", <<"deny_unknown_fields">>)
serde_enum_attr ==
    Attr("serde", <<"deny_unknown_fields", "rename_all = \"snake_case\"">>)

\* Attributes an input definition may already carry.
InputAttrs ==
    {Attr("doc", <<"A message">>),
     Attr("serde", <<"rename_all = \"snake_case\"">>),
     Attr("derive", <<"Eq">>)}

DeriveInputs ==
    {[attrs |-> a, ident |-> i, generics |-> g, data |-> d, body |-> b] :
        a \in SeqsUpTo(InputAttrs, MaxAttrs),
        i \in {"InstantiateMsg", "SudoMsg"},
        g \in {"", "<T>"},
        d \in {"Struct", "Enum", "Union"},
        b \in {<<>>, <<"verifier", "beneficiary">>, <<"StealFunds">>}}

attr_token(a) == [tok |-> "attr", attr |-> a]

\* ToTokens for DeriveInput: its attributes, then the item itself.
to_tokens(di) ==
    MapSeq(attr_token, di.attrs)
    \o <<[tok |-> "item", ident |-> di.ident, generics |-> di.generics,
          data |-> di.data, body |-> di.body]>>

IsAttrToken(t) == t.tok = "attr"
token_attr(t) == t.attr

\* Parse for DeriveInput: outer attributes, then one struct, enum or union.
parse(tokens) ==
    LET item == tokens[Len(tokens)] IN
    [attrs |-> MapSeq(token_attr, SelectSeq(tokens, IsAttrToken)),
     ident |-> item.ident, generics |-> item.generics,
     data |-> item.data, body |-> item.body]

\* The struct arm carrying the enum arm's serde attribute.
struct_bundle_renaming == <<derive_attr, allow_attr, serde_enum_attr>>

struct_bundle == <<derive_attr, allow_attr, serde_struct_attr>>
enum_bundle == <<derive_attr, allow_attr, serde_enum_attr>>

\* None stands for the panic "unions are not supported".
cw_serde_impl(di) ==
    CASE di.data = "Struct" ->
            Some(parse(MapSeq(attr_token, struct_bundle) \o to_tokens(di)))
      [] di.data = "Enum" ->
            Some(parse(MapSeq(attr_token, enum_bundle) \o to_tokens(di)))
      [] di.data = "Union" -> None

NoInput == [attrs |-> <<>>, ident |-> "", generics |-> "", data |-> "", body |-> <<>>]
NoMsg == <<>>
NoSchema == [subschemas |-> None]

(***************************************************************************)
(* response_schemas() on a type whose JsonSchema implementation is         *)
(* arbitrary.                                                              *)
(***************************************************************************)
Init ==
    /\ pc = "start"
    /\ schema \in Schemas
    /\ impl \in ResponseMaps
    /\ msg = NoMsg
    /\ result = None
    /\ input = NoInput
    /\ output = None

ResponseSchemas ==
    /\ pc = "start"
    /\ result' = Some(response_schemas(schema, impl))
    /\ pc' = "done"
    /\ UNCHANGED <<msg, schema, impl, input, output>>

Next == ResponseSchemas

Spec == Init /\ [][Next]_vars

(***************************************************************************)
(* response_schemas() on a QueryMsg enum with a derived JsonSchema.        *)
(***************************************************************************)
InitDerived ==
    /\ pc = "start"
    /\ msg \in QueryMsgs
    /\ schema = schema_for(msg)
    /\ impl \in ResponseMaps
    /\ result = None
    /\ input = NoInput
    /\ output = None

SpecDerived == InitDerived /\ [][Next]_vars

(***************************************************************************)
(* cw_serde_impl on a type definition.                                     *)
(***************************************************************************)
InitSerde ==
    /\ pc = "start"
    /\ input \in DeriveInputs
    /\ output = None
    /\ msg = NoMsg
    /\ schema = NoSchema
    /\ impl = <<>>
    /\ result = None

CwSerde ==
    /\ pc = "start"
    /\ output' = cw_serde_impl(input)
    /\ pc' = IF cw_serde_impl(input) = None THEN "panicked" ELSE "done"
    /\ UNCHANGED <<msg, schema, impl, result, input>>

NextSerde == CwSerde

SpecSerde == InitSerde /\ [][NextSerde]_vars

(***************************************************************************)
(* Vocabulary of the properties.                                           *)
(***************************************************************************)
Finished == pc = "done" /\ result /= None
Res == result[1]
Keys == DOMAIN impl

HasOneOf(sch) == sch.subschemas /= None /\ sch.subschemas[1].one_of /= None
Alternatives(sch) == IF HasOneOf(sch) THEN sch.subschemas[1].one_of[1] ELSE <<>>
Alts == Alternatives(schema)

IsObjectAlt(s) == s.instance_type = Some([kind |-> "Single", ty |-> "Object"])
IsStringAlt(s) == s.instance_type = Some([kind |-> "Single", ty |-> "String"])
RequiredOf(s) == IF s.object = None THEN {} ELSE s.object[1].required
Sole(S) == CHOOSE x \in S : TRUE

\* The name n is in the schema-derived set the verdict r was computed from.
CountedAsQuery(n, r) ==
    /\ r.tag /= "InvalidQueryMsgSchema"
    /\ r.tag = "Ok" => n \in DOMAIN r.value
    /\ r.tag = "InconsistentQueries" => n \in r.query_msg

Failed == Finished /\ Res = InvalidQueryMsgSchema

\* C1: whenever response_schemas() succeeds, every one-of alternative of the
\* schema yields an operation name that is a key of the mapping, and every
\* key of the mapping is the operation name of some alternative: the two
\* sets are equal, no name is on one side only.
C1_SuccessMeansEqualSets ==
    (Finished /\ IsOk(Res)) =>
        /\ \A i \in 1..Len(Alts) :
             /\ IsOk(variant_name(Alts[i]))
             /\ variant_name(Alts[i]).value \in DOMAIN Res.value
        /\ \A k \in DOMAIN Res.value :
             \E i \in 1..Len(Alts) : variant_name(Alts[i]) = Ok(k)

C1_Witness ==
    /\ Finished /\ IsOk(Res)
    /\ Cardinality(Keys) = 2
    /\ Len(Alts) = 2

\* C2: whenever response_schemas() succeeds, no two one-of alternatives of
\* the schema yield the same operation name.
C2_NoDuplicateNames ==
    (Finished /\ IsOk(Res)) =>
        \A i, j \in 1..Len(Alts) :
            i /= j => variant_name(Alts[i]) /= variant_name(Alts[j])

\* C3: for a QueryMsg enum with a tuple-like variant of two or more
\* positional fields, response_schemas() fails with InvalidQueryMsgSchema
\* whatever the mapping is.
C3_WideTupleVariantIsInvalid ==
    (Finished /\ \E i \in 1..Len(msg) :
                    msg[i].style = "tuple" /\ msg[i].fields >= 2)
        => Res = InvalidQueryMsgSchema

C5_SuccessReturnsMappingUnchanged ==
    (Finished /\ IsOk(Res)) =>
        /\ DOMAIN Res.value = DOMAIN impl
        /\ \A k \in DOMAIN impl : Res.value[k] = impl[k]

C5_Witness ==
    /\ Finished /\ IsOk(Res)
    /\ \E k \in Keys : impl[k] = "String"

\* C6 as stated: a schema exposing no one-of alternatives has the empty
\* derived set: success with the empty mapping when the mapping is empty,
\* InconsistentQueries with query_msg = {} when it is not, and never
\* InvalidQueryMsgSchema.
C6_NoAlternativesIsEmptySet ==
    (Finished /\ Len(Alts) = 0) =>
        Res = IF Keys = {} THEN Ok(impl) ELSE InconsistentQueries({}, Keys)

\* C6 amended: a schema without a subschema section, or with an empty one-of
\* list, has the empty derived set (success with the empty mapping, else
\* InconsistentQueries with query_msg = {}); a schema with a subschema
\* section that lacks the one-of list fails with InvalidQueryMsgSchema.
C6_EmptySetUnlessOneOfMissing ==
    Finished =>
        /\ (schema.subschemas = None \/ (HasOneOf(schema) /\ Len(Alts) = 0)) =>
             Res = IF Keys = {} THEN Ok(impl) ELSE InconsistentQueries({}, Keys)
        /\ (schema.subschemas /= None /\ ~HasOneOf(schema)) =>
             Res = InvalidQueryMsgSchema

C6_Witness ==
    /\ Finished
    /\ schema.subschemas = None
    /\ Keys /= {}
    /\ Res = InconsistentQueries({}, Keys)

\* C7: for a struct or an enum, cw_serde_impl returns the input definition
\* with three attributes put in front of its own (the derive list, the clippy
\* allowance, serde(deny_unknown_fields)); name, generics, kind, fields or
\* variants and the input's own attributes are unchanged, and the added serde
\* attribute carries rename_all = "snake_case" exactly when the input is an
\* enum.
C7_OnlyTheBundleIsAdded ==
    (pc /= "start" /\ input.data \in {"Struct", "Enum"}) =>
        /\ pc = "done"
        /\ output /= None
        /\ LET out == output[1] IN
           /\ out.ident = input.ident
           /\ out.generics = input.generics
           /\ out.data = input.data
           /\ out.body = input.body
           /\ Len(out.attrs) = Len(input.attrs) + 3
           /\ SubSeq(out.attrs, 4, Len(out.attrs)) = input.attrs
           /\ out.attrs[1] = derive_attr
           /\ out.attrs[2] = allow_attr
           /\ out.attrs[3].path = "serde"
           /\ \E i \in 1..Len(out.attrs[3].args) :
                 out.attrs[3].args[i] = "deny_unknown_fields"
           /\ (\E i \in 1..Len(out.attrs[3].args) :
                 out.attrs[3].args[i] = "rename_all = \"snake_case\"")
              <=> input.data = "Enum"

C7_Witness ==
    /\ pc = "done"
    /\ input.data = "Struct"
    /\ Len(input.attrs) = 2
    /\ input.attrs[1] = Attr("serde", <<"rename_all = \"snake_case\"">>)
    /\ output /= None

\* C8: an object-shaped alternative yields its sole required field name; with
\* no required field or more than one, the whole check fails with
\* InvalidQueryMsgSchema, whatever the other alternatives and the mapping.
C8_ObjectAlternative ==
    Finished =>
        \A i \in 1..Len(Alts) :
            IsObjectAlt(Alts[i]) =>
                IF Cardinality(RequiredOf(Alts[i])) = 1
                THEN Res /= InvalidQueryMsgSchema =>
                        CountedAsQuery(Sole(RequiredOf(Alts[i])), Res)
                ELSE Res = InvalidQueryMsgSchema

\* C9: a string-shaped alternative yields the single literal of its
\* enumerated values; when the values are absent, empty, more than one, or
\* the single value is not a string, the whole check fails with
\* InvalidQueryMsgSchema.
C9_StringAlternative ==
    Finished =>
        \A i \in 1..Len(Alts) :
            IsStringAlt(Alts[i]) =>
                IF /\ Alts[i].enum_values /= None
                   /\ Len(Alts[i].enum_values[1]) = 1
                   /\ Alts[i].enum_values[1][1].t = "String"
                THEN Res /= InvalidQueryMsgSchema =>
                        CountedAsQuery(Alts[i].enum_values[1][1].s, Res)
                ELSE Res = InvalidQueryMsgSchema

C9_Witness ==
    /\ Failed
    /\ Len(Alts) = 2
    /\ IsObjectAlt(Alts[1]) /\ RequiredOf(Alts[1]) = Keys
    /\ Cardinality(Keys) = 1
    /\ IsStringAlt(Alts[2])
    /\ Alts[2].enum_values /= None
    /\ Len(Alts[2].enum_values[1]) = 2

\* C10: an alternative that is neither a single object type nor a single
\* string type makes response_schemas() fail with InvalidQueryMsgSchema, also
\* when the other alternatives are well formed and whatever the keys of the
\* mapping are.
C10_OtherShapeIsInvalid ==
    Finished =>
        ((\E i \in 1..Len(Alts) : ~IsObjectAlt(Alts[i]) /\ ~IsStringAlt(Alts[i]))
            => Res = InvalidQueryMsgSchema)

C10_Witness ==
    /\ Failed
    /\ Len(Alts) = 2
    /\ IsObjectAlt(Alts[1]) /\ Cardinality(RequiredOf(Alts[1])) = 1
    /\ Alts[2].instance_type = Some([kind |-> "Vec", ty |-> "Object"])
    /\ Alts[2].object /= None
    /\ Keys = {"balance_for"}
====
